---- MODULE Spec2Model ----
(***************************************************************************)
(* Pages of quantum-harmony-lab: the gate playground (GatePlayground,      *)
(* src/src/pages/DataAnalysis.tsx lines 612-1046), the circuit visualizer  *)
(* (src/src/pages/CircuitVisualizer.tsx) with its gate loop, its run       *)
(* simulateCircuit and its diagram, the Bloch sphere page                  *)
(* (src/src/pages/BlochSphere.tsx) and the error control page              *)
(* (src/unnamed/part_002).                                                 *)
(*                                                                         *)
(* Specifications.  Spec: the playground page.  SpecGate: both engines     *)
(* gate by gate from |0>.  SpecRun: one run of simulateCircuit on chosen   *)
(* qubit count, gate list and shot count, every draw of every shot taken   *)
(* from DrawVals.  SpecRerun: longer gate lists, the qubit slider lowered  *)
(* under placed gates, runs repeated over earlier runs, one shot each.     *)
(* The sliders of the circuit page reach 5 qubits and 100 to 4096 shots;   *)
(* the qubit and shot counts here are the small ones the bounds allow.     *)
(* SpecDiagram: the circuit diagram's cells, the qubit slider and Clear,   *)
(* without runs.  SpecPage: the circuit page edited through palette and    *)
(* cells, then run.  SpecBloch: the animation of the Bloch sphere page.    *)
(* SpecError: the error control page.  Every variable of a page that a     *)
(* specification does not use keeps its initial value in it.               *)
(*                                                                         *)
(* Numbers.  Every JavaScript number the gates produce from |0> with the   *)
(* modelled angles lies in the field Q(sqrt 2).  A number is the triple    *)
(* <<a, b, d>> standing for (a + b*sqrt(2)) / d with d > 0 and             *)
(* gcd(a, b, d) = 1.  Math.SQRT1_2, Math.cos and Math.sin are taken at     *)
(* their real values; IEEE-754 rounding is not modelled, so "equal" below  *)
(* means equal as real numbers.                                            *)
(*                                                                         *)
(* Angles.  The rotation slider moves in steps of PI/12, so an angle is    *)
(* the integer number of PI/12 steps.  Only the positions whose half angle *)
(* is a multiple of PI/4 have cos and sin in Q(sqrt 2): SliderAngles.      *)
(***************************************************************************)
EXTENDS Integers, Sequences, FiniteSets, TLC

\* ------------------------------------------------------------------ bounds
MaxHist == 2
MaxStepsPG == 3
MaxStepsCV == 4
\* circuit runs: qubit count, gates placed before a single run, gates placed
\* where runs repeat, shots of a run
MaxQubits == 2
MaxRunGates == 1
MaxGates == 2
MaxShots == 3

\* --------------------------------------------------- arithmetic in Q(sqrt 2)
Abs(n) == IF n < 0 THEN -n ELSE n

RECURSIVE GCD(_, _)
GCD(m, n) == IF n = 0 THEN m ELSE GCD(n, m % n)

QNorm(a, b, d) ==
  IF d = 1 THEN <<a, b, d>>
  ELSE LET g == GCD(GCD(Abs(a), Abs(b)), d)
       IN  <<a \div g, b \div g, d \div g>>

QInt(n) == <<n, 0, 1>>
QZero == QInt(0)
QOne == QInt(1)
QTwo == QInt(2)

QNeg(x) == <<-x[1], -x[2], x[3]>>
QAdd(x, y) == QNorm(x[1] * y[3] + y[1] * x[3], x[2] * y[3] + y[2] * x[3], x[3] * y[3])
QSub(x, y) == QAdd(x, QNeg(y))
QMul(x, y) == QNorm(x[1] * y[1] + 2 * x[2] * y[2], x[1] * y[2] + x[2] * y[1], x[3] * y[3])
QSq(x) == QMul(x, x)

\* 1 / (a + b*sqrt 2)/d  =  d * (a - b*sqrt 2) / (a^2 - 2 b^2)
QInv(x) ==
  LET n == x[1] * x[1] - 2 * x[2] * x[2]
  IN  IF n > 0 THEN QNorm(x[1] * x[3], -(x[2] * x[3]), n)
               ELSE QNorm(-(x[1] * x[3]), x[2] * x[3], -n)
QDiv(x, y) == QMul(x, QInv(y))

ISqrt(n) == CHOOSE r \in 0..n : r * r <= n /\ (r + 1) * (r + 1) > n
IsSquare(n) == n >= 0 /\ ISqrt(n) * ISqrt(n) = n

\* Math.sqrt on the rationals of the field whose root is again in the field:
\* sqrt(a/d) = sqrt(a*d)/d, or sqrt(2*a*d)*sqrt(2)/(2*d).
QSqrt(x) ==
  IF IsSquare(x[1] * x[3])
  THEN QNorm(ISqrt(x[1] * x[3]), 0, x[3])
  ELSE QNorm(0, ISqrt(2 * x[1] * x[3]), 2 * x[3])

\* ------------------------------------------------------ JavaScript constants
\* Math.SQRT1_2 = sqrt(2)/2
SQRT1_2 == <<0, 1, 2>>

\* Math.cos(Math.PI / 4) and Math.sin(Math.PI / 4)
COS_PI_4 == <<0, 1, 2>>
SIN_PI_4 == <<0, 1, 2>>

\* Math.PI in slider steps of PI/12
PI == 12
\* the value of an omitted `angle?: number` argument
Undefined == -1

\* slider positions 0 .. 2*PI whose half angle is a multiple of PI/4
SliderAngles == {0, 6, 12, 18, 24}

\* Math.cos(theta / 2), Math.sin(theta / 2) for theta in SliderAngles
CosHalf(theta) ==
  CASE theta = 0 -> QOne
    [] theta = 6 -> SQRT1_2
    [] theta = 12 -> QZero
    [] theta = 18 -> QNeg(SQRT1_2)
    [] theta = 24 -> QNeg(QOne)
SinHalf(theta) ==
  CASE theta = 0 -> QZero
    [] theta = 6 -> SQRT1_2
    [] theta = 12 -> QOne
    [] theta = 18 -> SQRT1_2
    [] theta = 24 -> QZero

\* `angle || Math.PI`: undefined and 0 are falsy
OrPI(angle) == IF angle = Undefined \/ angle = 0 THEN PI ELSE angle

\* ------------------------------------------------------- gate playground
PGGateType == {"I", "X", "Y", "Z", "H", "S", "T", "Rx", "Ry", "Rz"}
BasicGates == {"I", "X", "Y", "Z", "H", "S", "T"}
RotationGates == {"Rx", "Ry", "Rz"}

\* useState initial value of stateVector: alpha = [1, 0], beta = [0, 0]
PGKet0 == [alpha |-> <<QOne, QZero>>, beta |-> <<QZero, QZero>>]

PG_X(alpha, beta) == [alpha |-> beta, beta |-> alpha]
PG_Y(alpha, beta) ==
  [alpha |-> <<beta[2], QNeg(beta[1])>>,
   beta  |-> <<QNeg(alpha[2]), alpha[1]>>]
PG_Z(alpha, beta) == [alpha |-> alpha, beta |-> <<QNeg(beta[1]), QNeg(beta[2])>>]
PG_H(alpha, beta) ==
  LET sqrt2 == SQRT1_2
  IN  [alpha |-> <<QMul(sqrt2, QAdd(alpha[1], beta[1])), QMul(sqrt2, QAdd(alpha[2], beta[2]))>>,
       beta  |-> <<QMul(sqrt2, QSub(alpha[1], beta[1])), QMul(sqrt2, QSub(alpha[2], beta[2]))>>]
\* S that negates both swapped components
PG_S_BothNegated(alpha, beta) == [alpha |-> alpha, beta |-> <<QNeg(beta[2]), QNeg(beta[1])>>]
PG_S(alpha, beta) == [alpha |-> alpha, beta |-> <<QNeg(beta[2]), beta[1]>>]
PG_T(alpha, beta) ==
  LET cos45 == COS_PI_4
      sin45 == SIN_PI_4
  IN  [alpha |-> alpha,
       beta  |-> <<QSub(QMul(cos45, beta[1]), QMul(sin45, beta[2])),
                   QAdd(QMul(sin45, beta[1]), QMul(cos45, beta[2]))>>]
\* Rx with the sign of one sine term flipped
PG_Rx_SignSlip(alpha, beta, theta) ==
  LET cosRx == CosHalf(theta)
      sinRx == SinHalf(theta)
  IN  [alpha |-> <<QAdd(QMul(cosRx, alpha[1]), QMul(sinRx, beta[2])),
                   QAdd(QMul(cosRx, alpha[2]), QMul(sinRx, beta[1]))>>,
       beta  |-> <<QAdd(QMul(sinRx, alpha[2]), QMul(cosRx, beta[1])),
                   QAdd(QMul(QNeg(sinRx), alpha[1]), QMul(cosRx, beta[2]))>>]
PG_Rx(alpha, beta, theta) ==
  LET cosRx == CosHalf(theta)
      sinRx == SinHalf(theta)
  IN  [alpha |-> <<QAdd(QMul(cosRx, alpha[1]), QMul(sinRx, beta[2])),
                   QSub(QMul(cosRx, alpha[2]), QMul(sinRx, beta[1]))>>,
       beta  |-> <<QAdd(QMul(sinRx, alpha[2]), QMul(cosRx, beta[1])),
                   QAdd(QMul(QNeg(sinRx), alpha[1]), QMul(cosRx, beta[2]))>>]
\* Ry with sine and cosine exchanged in the beta row
PG_Ry_Exchanged(alpha, beta, theta) ==
  LET cosRy == CosHalf(theta)
      sinRy == SinHalf(theta)
  IN  [alpha |-> <<QSub(QMul(cosRy, alpha[1]), QMul(sinRy, beta[1])),
                   QSub(QMul(cosRy, alpha[2]), QMul(sinRy, beta[2]))>>,
       beta  |-> <<QAdd(QMul(cosRy, alpha[1]), QMul(sinRy, beta[1])),
                   QAdd(QMul(cosRy, alpha[2]), QMul(sinRy, beta[2]))>>]
PG_Ry(alpha, beta, theta) ==
  LET cosRy == CosHalf(theta)
      sinRy == SinHalf(theta)
  IN  [alpha |-> <<QSub(QMul(cosRy, alpha[1]), QMul(sinRy, beta[1])),
                   QSub(QMul(cosRy, alpha[2]), QMul(sinRy, beta[2]))>>,
       beta  |-> <<QAdd(QMul(sinRy, alpha[1]), QMul(cosRy, beta[1])),
                   QAdd(QMul(sinRy, alpha[2]), QMul(cosRy, beta[2]))>>]
\* Rz that turns alpha the same way as beta
PG_Rz_SameTurn(alpha, beta, theta) ==
  LET cosRz == CosHalf(theta)
      sinRz == SinHalf(theta)
  IN  [alpha |-> <<QSub(QMul(cosRz, alpha[1]), QMul(sinRz, alpha[2])),
                   QAdd(QMul(sinRz, alpha[1]), QMul(cosRz, alpha[2]))>>,
       beta  |-> <<QSub(QMul(cosRz, beta[1]), QMul(sinRz, beta[2])),
                   QAdd(QMul(sinRz, beta[1]), QMul(cosRz, beta[2]))>>]
PG_Rz(alpha, beta, theta) ==
  LET cosRz == CosHalf(theta)
      sinRz == SinHalf(theta)
  IN  [alpha |-> <<QAdd(QMul(cosRz, alpha[1]), QMul(sinRz, alpha[2])),
                   QAdd(QMul(QNeg(sinRz), alpha[1]), QMul(cosRz, alpha[2]))>>,
       beta  |-> <<QSub(QMul(cosRz, beta[1]), QMul(sinRz, beta[2])),
                   QAdd(QMul(sinRz, beta[1]), QMul(cosRz, beta[2]))>>]

\* the state updater of applyGate(gate, angle)
PGApplyGate(prev, gate, angle) ==
  LET alpha == prev.alpha
      beta == prev.beta
      theta == OrPI(angle)
  IN  CASE gate = "X" -> PG_X(alpha, beta)
        [] gate = "Y" -> PG_Y(alpha, beta)
        [] gate = "Z" -> PG_Z(alpha, beta)
        [] gate = "H" -> PG_H(alpha, beta)
        [] gate = "S" -> PG_S(alpha, beta)
        [] gate = "T" -> PG_T(alpha, beta)
        [] gate = "Rx" -> PG_Rx(alpha, beta, theta)
        [] gate = "Ry" -> PG_Ry(alpha, beta, theta)
        [] gate = "Rz" -> PG_Rz(alpha, beta, theta)
        [] OTHER -> prev

\* Bloch vector whose x lost the factor 2
getBlochCoordinates_HalfX(sv) ==
  LET alpha == sv.alpha
      beta == sv.beta
      norm == QSqrt(QAdd(QAdd(QSq(alpha[1]), QSq(alpha[2])), QAdd(QSq(beta[1]), QSq(beta[2]))))
      a0 == QDiv(alpha[1], norm)
      a1 == QDiv(alpha[2], norm)
      b0 == QDiv(beta[1], norm)
      b1 == QDiv(beta[2], norm)
  IN  [x |-> QAdd(QMul(a0, b0), QMul(a1, b1)),
       y |-> QMul(QTwo, QSub(QMul(a1, b0), QMul(a0, b1))),
       z |-> QSub(QSub(QAdd(QSq(a0), QSq(a1)), QSq(b0)), QSq(b1))]
getBlochCoordinates(sv) ==
  LET alpha == sv.alpha
      beta == sv.beta
      norm == QSqrt(QAdd(QAdd(QSq(alpha[1]), QSq(alpha[2])), QAdd(QSq(beta[1]), QSq(beta[2]))))
      a0 == QDiv(alpha[1], norm)
      a1 == QDiv(alpha[2], norm)
      b0 == QDiv(beta[1], norm)
      b1 == QDiv(beta[2], norm)
  IN  [x |-> QMul(QTwo, QAdd(QMul(a0, b0), QMul(a1, b1))),
       y |-> QMul(QTwo, QSub(QMul(a1, b0), QMul(a0, b1))),
       z |-> QSub(QSub(QAdd(QSq(a0), QSq(a1)), QSq(b0)), QSq(b1))]

\* ------------------------------------------- circuit visualizer, gate loop
\* State of the CircuitVisualizer component (useState, lines 57-64).  The
\* component's selectedGate is cvSelectedGate here, the playground owning the
\* name.  isSimulating is set and cleared inside simulateCircuit, one
\* synchronous handler, so it is false in every state between two handlers
\* and is left out.  nextId stands for the fresh `${Date.now()}-${Math.random()}`
\* of addGate: the number of gates ever placed.
VARIABLES numQubits, gates, cvSelectedGate, qubitStates, measurementResults, shots, hasRun, nextId

CVGateType == {"H", "X", "Y", "Z", "CNOT", "T", "S", "M"}

\* every qubit starting in |1> instead
CVKet0_One == [alpha |-> [real |-> QZero, imag |-> QZero], beta |-> [real |-> QOne, imag |-> QZero]]
\* one element of `states`: alpha = {real: 1, imag: 0}, beta = {real: 0, imag: 0}
CVKet0 == [alpha |-> [real |-> QOne, imag |-> QZero], beta |-> [real |-> QZero, imag |-> QZero]]

\* the array of the previous run taken over when it has the right length
CVInitStates_Reuse(n) == IF Len(qubitStates) = n THEN qubitStates ELSE [q \in 1..n |-> CVKet0]

\* Array(numQubits).fill(null).map(() => |0>), a fresh object per qubit
CVInitStates(n) == [q \in 1..n |-> CVKet0]

\* H whose beta row lost the 1/sqrt(2) factor
CV_H_Unscaled(s) ==
  LET alphaH == s.alpha
      betaH == s.beta
      sqrt2 == SQRT1_2
  IN  [alpha |-> [real |-> QMul(sqrt2, QAdd(alphaH.real, betaH.real)),
                  imag |-> QMul(sqrt2, QAdd(alphaH.imag, betaH.imag))],
       beta  |-> [real |-> QSub(alphaH.real, betaH.real),
                  imag |-> QSub(alphaH.imag, betaH.imag)]]
CV_H(s) ==
  LET alphaH == s.alpha
      betaH == s.beta
      sqrt2 == SQRT1_2
  IN  [alpha |-> [real |-> QMul(sqrt2, QAdd(alphaH.real, betaH.real)),
                  imag |-> QMul(sqrt2, QAdd(alphaH.imag, betaH.imag))],
       beta  |-> [real |-> QMul(sqrt2, QSub(alphaH.real, betaH.real)),
                  imag |-> QMul(sqrt2, QSub(alphaH.imag, betaH.imag))]]
CV_X(s) ==
  LET temp == s.alpha
  IN  [alpha |-> s.beta, beta |-> temp]
\* Z that negates alpha in place of beta
CV_Z_NegatesAlpha(s) == [s EXCEPT !.alpha = [real |-> QNeg(s.alpha.real), imag |-> QNeg(s.alpha.imag)]]
CV_Z(s) == [s EXCEPT !.beta = [real |-> QNeg(s.beta.real), imag |-> QNeg(s.beta.imag)]]
\* Y that reads alpha after overwriting it (no alphaY copy)
CV_Y_NoCopy(s) ==
  LET s1 == [s EXCEPT !.alpha = [real |-> s.beta.imag, imag |-> QNeg(s.beta.real)]]
  IN  [s1 EXCEPT !.beta = [real |-> QNeg(s1.alpha.imag), imag |-> s1.alpha.real]]
CV_Y(s) ==
  LET alphaY == s.alpha
      s1 == [s EXCEPT !.alpha = [real |-> s.beta.imag, imag |-> QNeg(s.beta.real)]]
  IN  [s1 EXCEPT !.beta = [real |-> QNeg(alphaY.imag), imag |-> alphaY.real]]
CV_S(s) == [s EXCEPT !.beta = [real |-> QNeg(s.beta.imag), imag |-> s.beta.real]]
\* T whose imaginary part subtracts instead of adds
CV_T_SignSlip(s) ==
  LET cos == COS_PI_4
      sin == SIN_PI_4
      betaT == s.beta
  IN  [s EXCEPT !.beta = [real |-> QSub(QMul(cos, betaT.real), QMul(sin, betaT.imag)),
                          imag |-> QSub(QMul(sin, betaT.real), QMul(cos, betaT.imag))]]
CV_T(s) ==
  LET cos == COS_PI_4
      sin == SIN_PI_4
      betaT == s.beta
  IN  [s EXCEPT !.beta = [real |-> QSub(QMul(cos, betaT.real), QMul(sin, betaT.imag)),
                          imag |-> QAdd(QMul(sin, betaT.real), QMul(cos, betaT.imag))]]

\* the loop body with a case for CNOT that flips the target when the control
\* qubit is |1>
CVApplyGate_Controlled(states, gate, nq) ==
  LET q == gate.qubit
  IN  IF q >= nq THEN states
      ELSE CASE gate.type = "H" -> [states EXCEPT ![q + 1] = CV_H(states[q + 1])]
             [] gate.type = "X" -> [states EXCEPT ![q + 1] = CV_X(states[q + 1])]
             [] gate.type = "Z" -> [states EXCEPT ![q + 1] = CV_Z(states[q + 1])]
             [] gate.type = "Y" -> [states EXCEPT ![q + 1] = CV_Y(states[q + 1])]
             [] gate.type = "S" -> [states EXCEPT ![q + 1] = CV_S(states[q + 1])]
             [] gate.type = "T" -> [states EXCEPT ![q + 1] = CV_T(states[q + 1])]
             [] gate.type = "CNOT" /\ gate.controlQubit >= 0
                  /\ states[gate.controlQubit + 1].alpha = [real |-> QZero, imag |-> QZero] ->
                  [states EXCEPT ![q + 1] = CV_X(states[q + 1])]
             [] OTHER -> states

\* the loop body with a case for M that leaves the measured qubit in |0>
CVApplyGate_MeasureResets(states, gate, nq) ==
  LET q == gate.qubit
  IN  IF q >= nq THEN states
      ELSE CASE gate.type = "H" -> [states EXCEPT ![q + 1] = CV_H(states[q + 1])]
             [] gate.type = "X" -> [states EXCEPT ![q + 1] = CV_X(states[q + 1])]
             [] gate.type = "Z" -> [states EXCEPT ![q + 1] = CV_Z(states[q + 1])]
             [] gate.type = "Y" -> [states EXCEPT ![q + 1] = CV_Y(states[q + 1])]
             [] gate.type = "S" -> [states EXCEPT ![q + 1] = CV_S(states[q + 1])]
             [] gate.type = "T" -> [states EXCEPT ![q + 1] = CV_T(states[q + 1])]
             [] gate.type = "M" -> [states EXCEPT ![q + 1] = CVKet0]
             [] OTHER -> states

\* body of gates.forEach(gate => ...): states is 1-indexed here, states[q + 1]
\* is the code's states[q]; CNOT and M match no case of the switch
CVApplyGate(states, gate, nq) ==
  LET q == gate.qubit
  IN  IF q >= nq THEN states
      ELSE CASE gate.type = "H" -> [states EXCEPT ![q + 1] = CV_H(states[q + 1])]
             [] gate.type = "X" -> [states EXCEPT ![q + 1] = CV_X(states[q + 1])]
             [] gate.type = "Z" -> [states EXCEPT ![q + 1] = CV_Z(states[q + 1])]
             [] gate.type = "Y" -> [states EXCEPT ![q + 1] = CV_Y(states[q + 1])]
             [] gate.type = "S" -> [states EXCEPT ![q + 1] = CV_S(states[q + 1])]
             [] gate.type = "T" -> [states EXCEPT ![q + 1] = CV_T(states[q + 1])]
             [] OTHER -> states

VARIABLES selectedGate, rotationAngle, appliedGates, stateVector

\* Gate engine followed one gate at a time: which page's engine runs (gImpl),
\* the gates applied so far (gHist) and the state before and after each of
\* them (gTrace).  The playground state is stateVector's; the circuit state
\* is the `states` array of a one-qubit circuit.
VARIABLES gImpl, gHist, gTrace

\* Bloch sphere page.  Wall-clock time is counted in ticks (now), a timestamp
\* being the tick of its animation frame; time is the simulated time in the
\* page's units; a point of a trail is kept as the time it was computed for.
\* playedAt and firstFrameDue record the tick of the last click on Play and
\* whether a frame has run since: they are history, not state of the page.
\* animationRef is left out: a frame is requested exactly while isPlaying.
VARIABLES isPlaying, time, lastTimeRef, activeChannels, trails, now, playedAt, firstFrameDue

\* Error control page.  Rates are percentages where they are inputs and
\* exact fractions where they are computed; isSimulating is left out, it is
\* set and cleared within one call of simulateErrors.
VARIABLES errorRate, numTrials, codeType, enableCorrection, results, stats

pgVars == <<selectedGate, rotationAngle, appliedGates, stateVector>>
gVars == <<gImpl, gHist, gTrace>>
cvVars == <<numQubits, gates, cvSelectedGate, qubitStates, measurementResults, shots, hasRun, nextId>>
bsVars == <<isPlaying, time, lastTimeRef, activeChannels, trails, now, playedAt, firstFrameDue>>
ecVars == <<errorRate, numTrials, codeType, enableCorrection, results, stats>>
vars == <<pgVars, gVars, cvVars, bsVars, ecVars>>

PGInit ==
  /\ selectedGate = "H"
  /\ rotationAngle = PI
  /\ appliedGates = <<>>
  /\ stateVector = PGKet0

GIdle ==
  /\ gImpl = "none"
  /\ gHist = <<>>
  /\ gTrace = <<>>

\* the useState initial values of CircuitVisualizer
CVInit ==
  /\ numQubits = 3
  /\ gates = <<>>
  /\ cvSelectedGate = "H"
  /\ qubitStates = <<>>
  /\ measurementResults = <<>>
  /\ shots = 1024
  /\ hasRun = FALSE
  /\ nextId = 0

\* the trails of the Bloch sphere page, all empty
NoTrails == [original |-> <<>>, depolarizing |-> <<>>, amplitude |-> <<>>, phase |-> <<>>]

\* the useState and useRef initial values of BlochSpherePage, at tick 1
BSInit ==
  /\ isPlaying = FALSE
  /\ time = 0
  /\ lastTimeRef = 0
  /\ activeChannels = {"depolarizing", "amplitude", "phase"}
  /\ trails = NoTrails
  /\ now = 1
  /\ playedAt = 0
  /\ firstFrameDue = FALSE

NoStats == [rawErrorRate |-> QZero, correctedErrorRate |-> QZero,
            detectionRate |-> QZero, correctionRate |-> QZero]

\* the useState initial values of ErrorControl
ECInit ==
  /\ errorRate = 5
  /\ numTrials = 100
  /\ codeType = "bitflip"
  /\ enableCorrection = TRUE
  /\ results = <<>>
  /\ stats = NoStats

\* gate buttons: onClick={() => setSelectedGate(gate)}
SetSelectedGate(gate) ==
  /\ selectedGate' = gate
  /\ UNCHANGED <<rotationAngle, appliedGates, stateVector, gVars, cvVars, bsVars, ecVars>>

\* the slider is rendered only while a rotation gate is selected
SetRotationAngle(v) ==
  /\ selectedGate \in RotationGates
  /\ rotationAngle' = v
  /\ UNCHANGED <<selectedGate, appliedGates, stateVector, gVars, cvVars, bsVars, ecVars>>

\* Apply button: applyGate(selectedGate, rotation ? rotationAngle : undefined)
Apply ==
  LET gate == selectedGate
      angle == IF selectedGate \in RotationGates THEN rotationAngle ELSE Undefined
  IN  /\ Len(appliedGates) < MaxHist
      /\ appliedGates' = Append(appliedGates, [gate |-> gate, angle |-> angle])
      /\ stateVector' = PGApplyGate(stateVector, gate, angle)
      /\ UNCHANGED <<selectedGate, rotationAngle, gVars, cvVars, bsVars, ecVars>>

resetState ==
  /\ stateVector' = PGKet0
  /\ appliedGates' = <<>>
  /\ UNCHANGED <<selectedGate, rotationAngle, gVars, cvVars, bsVars, ecVars>>

Init == PGInit /\ GIdle /\ CVInit /\ BSInit /\ ECInit

Next ==
  \/ \E gate \in PGGateType : SetSelectedGate(gate)
  \/ \E v \in SliderAngles : SetRotationAngle(v)
  \/ Apply
  \/ resetState

Spec == Init /\ [][Next]_vars

\* ---------------------------------------------- the two engines, gate by gate
GateInit ==
  /\ PGInit
  /\ BSInit
  /\ ECInit
  /\ CVInit
  /\ gImpl \in {"pg", "cv"}
  /\ gHist = <<>>
  /\ gTrace = IF gImpl = "pg" THEN <<PGKet0>> ELSE <<CVInitStates(1)>>

\* one call of the playground's applyGate, with the angle the Apply button passes
PGStep(gate, v) ==
  LET angle == IF gate \in RotationGates THEN v ELSE Undefined
  IN  /\ gImpl = "pg"
      /\ Len(gHist) < MaxStepsPG
      /\ gate \in RotationGates \/ v = PI
      /\ gHist' = Append(gHist, [gate |-> gate, angle |-> angle])
      /\ gTrace' = Append(gTrace, PGApplyGate(gTrace[Len(gTrace)], gate, angle))
      /\ UNCHANGED <<gImpl, pgVars, cvVars, bsVars, ecVars>>

\* one iteration of simulateCircuit's gates.forEach on qubit 0 of one qubit
CVStep(type) ==
  /\ gImpl = "cv"
  /\ Len(gHist) < MaxStepsCV
  /\ gHist' = Append(gHist, [gate |-> type, angle |-> Undefined])
  /\ gTrace' = Append(gTrace, CVApplyGate(gTrace[Len(gTrace)], [type |-> type, qubit |-> 0], 1))
  /\ UNCHANGED <<gImpl, pgVars, cvVars, bsVars, ecVars>>

GateNext ==
  \/ \E gate \in PGGateType, v \in SliderAngles : PGStep(gate, v)
  \/ \E type \in CVGateType : CVStep(type)

SpecGate == GateInit /\ [][GateNext]_vars

\* ------------------------------------------------ notation for the properties
\* complex numbers as pairs <<re, im>>
CAdd(u, v) == <<QAdd(u[1], v[1]), QAdd(u[2], v[2])>>
CSub(u, v) == <<QSub(u[1], v[1]), QSub(u[2], v[2])>>
CNeg(u) == <<QNeg(u[1]), QNeg(u[2])>>
CMul(u, v) == <<QSub(QMul(u[1], v[1]), QMul(u[2], v[2])), QAdd(QMul(u[1], v[2]), QMul(u[2], v[1]))>>
CConj(u) == <<u[1], QNeg(u[2])>>
CReal(x) == <<x, QZero>>
CImagUnit == <<QZero, QOne>>
CAbsSq(u) == QAdd(QSq(u[1]), QSq(u[2]))
CScale(u, st) == [alpha |-> CMul(u, st.alpha), beta |-> CMul(u, st.beta)]
NormSq(st) == QAdd(CAbsSq(st.alpha), CAbsSq(st.beta))

\* the eighth roots of unity
Phases ==
  {<<QOne, QZero>>, <<QZero, QOne>>, <<QNeg(QOne), QZero>>, <<QZero, QNeg(QOne)>>,
   <<SQRT1_2, SQRT1_2>>, <<QNeg(SQRT1_2), SQRT1_2>>,
   <<SQRT1_2, QNeg(SQRT1_2)>>, <<QNeg(SQRT1_2), QNeg(SQRT1_2)>>}

\* the amplitude pair of an entry of gTrace, as pairs <<re, im>>
AsPairs(e) ==
  IF gImpl = "pg" THEN e
  ELSE [alpha |-> <<e[1].alpha.real, e[1].alpha.imag>>, beta |-> <<e[1].beta.real, e[1].beta.imag>>]

\* number of gates applied, the last gates, and the states around them
GN == Len(gHist)
GLast == gHist[GN]
GCur == AsPairs(gTrace[GN + 1])
GPrev == AsPairs(gTrace[GN])
GPrev2 == AsPairs(gTrace[GN - 1])
GTwice(gate) == GN >= 2 /\ gHist[GN].gate = gate /\ gHist[GN - 1].gate = gate

\* the running engine's own result of one more gate on an entry of gTrace
GApply(e, gate) ==
  IF gImpl = "pg" THEN AsPairs(PGApplyGate(e, gate, Undefined))
  ELSE AsPairs(CVApplyGate(e, [type |-> gate, qubit |-> 0], 1))

Ket0 == [alpha |-> <<QOne, QZero>>, beta |-> <<QZero, QZero>>]

\* cos(theta/2) and sin(theta/2) as complex numbers
CCos(theta) == CReal(CosHalf(theta))
CSin(theta) == CReal(SinHalf(theta))

\* --------------------------------------------------------------------- C1
\* the row of the gate table for RotationX: (cos a + i sin b, i sin a + cos b)
TableRx(theta, st) ==
  [alpha |-> CAdd(CMul(CCos(theta), st.alpha), CMul(CImagUnit, CMul(CSin(theta), st.beta))),
   beta  |-> CAdd(CMul(CImagUnit, CMul(CSin(theta), st.alpha)), CMul(CCos(theta), st.beta))]

\* the matrix gateInfo.Rx displays: (cos a - i sin b, -i sin a + cos b)
MatrixRx(theta, st) ==
  [alpha |-> CSub(CMul(CCos(theta), st.alpha), CMul(CImagUnit, CMul(CSin(theta), st.beta))),
   beta  |-> CSub(CMul(CCos(theta), st.beta), CMul(CImagUnit, CMul(CSin(theta), st.alpha)))]

GRxActed == gImpl = "pg" /\ GN >= 1 /\ GLast.gate = "Rx"

\* C1 as stated: Rx(theta) acts as the gate table's RotationX row, and
\* Rx(PI) on |0> gives alpha = (0,0), beta = (0,+1).  (Stated for the nonzero
\* angles; the angle 0 is the subject of C2.)
C1_TableRx ==
  /\ (GRxActed /\ GLast.angle # 0) => GCur = TableRx(GLast.angle, GPrev)
  /\ (GRxActed /\ GLast.angle = PI /\ GPrev = Ket0) =>
        (GCur.alpha = <<QZero, QZero>> /\ GCur.beta = <<QZero, QOne>>)

\* C1 amended: for every nonzero angle passed, Rx(theta) maps (alpha, beta)
\* to (cos(theta/2) alpha - i sin(theta/2) beta, -i sin(theta/2) alpha +
\* cos(theta/2) beta); Rx(PI) on |0> gives alpha = (0,0), beta = (0,-1).
C1_MatrixRx ==
  /\ (GRxActed /\ GLast.angle # 0) => GCur = MatrixRx(GLast.angle, GPrev)
  /\ (GRxActed /\ GLast.angle = PI /\ GPrev = Ket0) =>
        (GCur.alpha = <<QZero, QZero>> /\ GCur.beta = <<QZero, QNeg(QOne)>>)

C1_Witness ==
  /\ GRxActed /\ GLast.angle = PI /\ GPrev = Ket0
  /\ GCur.beta = <<QZero, QNeg(QOne)>>

\* --------------------------------------------------------------------- C3
\* C3: from |0>, after any sequence of gates of either engine the state has
\* |alpha|^2 + |beta|^2 = 1, and each single gate leaves |alpha|^2 + |beta|^2
\* as it was.
C3_NormPreserved ==
  /\ NormSq(GCur) = QOne
  /\ GN >= 1 => NormSq(GCur) = NormSq(GPrev)

C3_Witness ==
  /\ gImpl = "cv" /\ GN >= 3 /\ GLast.gate = "H"
  /\ gHist[GN - 1].gate = "T" /\ gHist[GN - 2].gate = "H"
  /\ NormSq(GCur) = QOne
  /\ GCur.alpha[2] # QZero

\* --------------------------------------------------------------------- C4
Involutions == {"X", "Y", "Z", "H"}

\* C4: in either engine, X, Y, Z or H applied twice in succession returns the
\* amplitudes the qubit had before the two applications.
C4_Involutory ==
  \A gate \in Involutions : GTwice(gate) => GCur = GPrev2

C4_Witness ==
  /\ gImpl = "cv" /\ GN >= 3 /\ GTwice("Y")
  /\ GCur = GPrev2 /\ GCur # GPrev
  /\ GCur.alpha # <<QZero, QZero>> /\ GCur.beta # <<QZero, QZero>>

\* --------------------------------------------------------------------- C5
\* C5: in either engine, S applied twice gives the amplitudes that Z applied
\* once gives.
C5_SSquaredIsZ ==
  GTwice("S") => GCur = GApply(gTrace[GN - 1], "Z")

C5_Witness ==
  /\ gImpl = "pg" /\ GTwice("S")
  /\ GPrev2.beta # <<QZero, QZero>>
  /\ GCur = GApply(gTrace[GN - 1], "Z") /\ GCur # GPrev2

\* --------------------------------------------------------------------- C6
\* C6: in either engine, T applied twice gives the amplitudes that S applied
\* once gives: alpha unchanged, beta multiplied by i.
C6_TSquaredIsS ==
  GTwice("T") =>
    /\ GCur = GApply(gTrace[GN - 1], "S")
    /\ GCur.alpha = GPrev2.alpha
    /\ GCur.beta = CMul(CImagUnit, GPrev2.beta)

C6_Witness ==
  /\ gImpl = "cv" /\ GTwice("T")
  /\ GPrev2.beta # <<QZero, QZero>> /\ GPrev2.alpha # <<QZero, QZero>>
  /\ GCur.beta = CMul(CImagUnit, GPrev2.beta)

\* --------------------------------------------------------------------- C7
PauliOf(gate) == CASE gate = "Rx" -> "X" [] gate = "Ry" -> "Y" [] gate = "Rz" -> "Z"

GRotPiActed == gImpl = "pg" /\ GN >= 1 /\ GLast.gate \in RotationGates /\ GLast.angle = PI

\* C7: the playground's Rx(PI), Ry(PI), Rz(PI) give the state X, Y, Z give,
\* multiplied by one complex factor of modulus 1.
C7_RotPiIsPauli ==
  GRotPiActed =>
    \E u \in Phases : GCur = CScale(u, GApply(gTrace[GN], PauliOf(GLast.gate)))

C7_Witness ==
  /\ GRotPiActed /\ GLast.gate = "Rz"
  /\ GPrev.alpha # <<QZero, QZero>> /\ GPrev.beta # <<QZero, QZero>>
  /\ GCur = CScale(<<QZero, QNeg(QOne)>>, GApply(gTrace[GN], "Z"))

\* --------------------------------------------------------------------- C8
\* the gate transformation table, row by row
TableGate(gate, theta, st) ==
  LET alpha == st.alpha
      beta == st.beta
      r == CReal(SQRT1_2)
  IN  CASE gate = "X" -> [alpha |-> beta, beta |-> alpha]
        [] gate = "Y" -> [alpha |-> <<beta[2], QNeg(beta[1])>>, beta |-> <<QNeg(alpha[2]), alpha[1]>>]
        [] gate = "Z" -> [alpha |-> alpha, beta |-> <<QNeg(beta[1]), QNeg(beta[2])>>]
        [] gate = "H" -> [alpha |-> CMul(CAdd(alpha, beta), r), beta |-> CMul(CSub(alpha, beta), r)]
        [] gate = "S" -> [alpha |-> alpha, beta |-> <<QNeg(beta[2]), beta[1]>>]
        [] gate = "T" -> [alpha |-> alpha, beta |-> CMul(<<SQRT1_2, SQRT1_2>>, beta)]
        [] gate = "Ry" -> [alpha |-> CSub(CMul(CCos(theta), alpha), CMul(CSin(theta), beta)),
                           beta  |-> CAdd(CMul(CSin(theta), alpha), CMul(CCos(theta), beta))]
        [] gate = "Rz" -> [alpha |-> CMul(<<CosHalf(theta), QNeg(SinHalf(theta))>>, alpha),
                           beta  |-> CMul(<<CosHalf(theta), SinHalf(theta)>>, beta)]
        [] gate = "I" -> [alpha |-> alpha, beta |-> beta]

TableGates == {"X", "Y", "Z", "H", "S", "T", "I", "Ry", "Rz"}
TableAngles == {6, 12, 18, 24}

GTableGateActed ==
  /\ GN >= 1 /\ GLast.gate \in TableGates
  /\ GLast.gate \in {"Ry", "Rz"} => GLast.angle \in TableAngles

\* C8: in either engine X, Y, Z, H, S, T, Identity, and Ry/Rz at PI/2, PI,
\* 3PI/2 and 2PI transform (alpha, beta) as their row of the gate table.
C8_GateTable ==
  GTableGateActed => GCur = TableGate(GLast.gate, GLast.angle, GPrev)

C8_Witness ==
  /\ gImpl = "pg" /\ GN >= 2 /\ GLast.gate = "Ry" /\ GLast.angle = 18
  /\ GPrev.alpha # <<QZero, QZero>> /\ GPrev.beta # <<QZero, QZero>>
  /\ GCur = TableGate("Ry", 18, GPrev)

\* --------------------------------------------------------------------- C2
\* a rotation gate computed with cos and sin of half the angle passed
RotSame(gate, theta, st) ==
  CASE gate = "Rx" -> PG_Rx(st.alpha, st.beta, theta)
    [] gate = "Ry" -> PG_Ry(st.alpha, st.beta, theta)
    [] gate = "Rz" -> PG_Rz(st.alpha, st.beta, theta)

\* the gate history replayed on |0>, every rotation with its recorded angle
RECURSIVE ReplaySame(_)
ReplaySame(h) ==
  IF h = <<>> THEN PGKet0
  ELSE LET prev == ReplaySame(SubSeq(h, 1, Len(h) - 1))
           g == h[Len(h)]
       IN  IF g.gate \in RotationGates
           THEN RotSame(g.gate, g.angle, prev)
           ELSE PGApplyGate(prev, g.gate, g.angle)

\* C2 as stated: every rotation applied used cos(theta/2) and sin(theta/2) of
\* the slider's angle theta, so a rotation applied with theta = 0 to |0> left
\* the state vector unchanged.
C2_SameAngle ==
  /\ stateVector = ReplaySame(appliedGates)
  /\ (Len(appliedGates) = 1 /\ appliedGates[1].gate \in RotationGates /\ appliedGates[1].angle = 0)
        => stateVector = PGKet0

\* --------------------------------------------------------------------- C9
BlochPoint(x, y, z) == [x |-> QInt(x), y |-> QInt(y), z |-> QInt(z)]
HApplied == [gate |-> "H", angle |-> Undefined]
SApplied == [gate |-> "S", angle |-> Undefined]

\* C9: getBlochCoordinates gives (0, 0, 1) for the initial |0> and (1, 0, 0)
\* once Hadamard has been applied to |0>.
C9_BlochOfKet0AndPlus ==
  /\ appliedGates = <<>> => getBlochCoordinates(stateVector) = BlochPoint(0, 0, 1)
  /\ appliedGates = <<HApplied>> => getBlochCoordinates(stateVector) = BlochPoint(1, 0, 0)

C9_Witness ==
  /\ appliedGates = <<HApplied>>
  /\ stateVector.alpha = <<SQRT1_2, QZero>> /\ stateVector.beta = <<SQRT1_2, QZero>>
  /\ getBlochCoordinates(stateVector).x = QOne

\* -------------------------------------------------------------------- C10
\* (|0> + i|1>)/sqrt 2 and (|0> - i|1>)/sqrt 2
KetPlusI == [alpha |-> <<SQRT1_2, QZero>>, beta |-> <<QZero, SQRT1_2>>]
KetMinusI == [alpha |-> <<SQRT1_2, QZero>>, beta |-> <<QZero, QNeg(SQRT1_2)>>]

\* C10 as stated: y = 2 Im(conj(alpha) beta); H then S on |0> gives the state
\* (|0> + i|1>)/sqrt 2 with Bloch vector (0, 1, 0), and (|0> - i|1>)/sqrt 2 has
\* Bloch vector (0, -1, 0).
C10_StandardY ==
  /\ getBlochCoordinates(stateVector).y
        = QMul(QTwo, CMul(CConj(stateVector.alpha), stateVector.beta)[2])
  /\ appliedGates = <<HApplied, SApplied>> =>
        (stateVector = KetPlusI /\ getBlochCoordinates(stateVector) = BlochPoint(0, 1, 0))
  /\ stateVector = KetMinusI => getBlochCoordinates(stateVector) = BlochPoint(0, -1, 0)

\* ------------------------------------------------ circuit visualizer, the run
\* simulateCircuit (lines 87-199) computed as the code computes it.  Arrays
\* are sequences, element k of a sequence being the code's index k - 1.
\* A string is the sequence of its characters.

\* sign of (a + b*sqrt 2)/d: -1, 0 or 1
QSign(x) ==
  LET a == x[1]
      b == x[2]
  IN  IF a = 0 /\ b = 0 THEN 0
      ELSE IF a >= 0 /\ b >= 0 THEN 1
      ELSE IF a <= 0 /\ b <= 0 THEN -1
      ELSE IF a > 0 THEN (IF a * a > 2 * b * b THEN 1 ELSE -1)
      ELSE (IF 2 * b * b > a * a THEN 1 ELSE -1)

\* x < y where x <= y is meant
QLeq_Strict(x, y) == QSign(QSub(y, x)) > 0

\* x <= y on numbers
QLeq(x, y) == QSign(QSub(y, x)) >= 0

\* the loop left at the first gate out of range, as by a break
RECURSIVE CVRunGates_StopAtSkip(_, _, _)
CVRunGates_StopAtSkip(states, gs, nq) ==
  IF gs = <<>> \/ Head(gs).qubit >= nq THEN states
  ELSE CVRunGates_StopAtSkip(CVApplyGate(states, Head(gs), nq), Tail(gs), nq)

\* gates.forEach(gate => ...) over the whole gate list
RECURSIVE CVRunGates(_, _, _)
CVRunGates(states, gs, nq) ==
  IF gs = <<>> THEN states
  ELSE CVRunGates(CVApplyGate(states, Head(gs), nq), Tail(gs), nq)

\* Math.pow(2, numQubits)
Pow2(n) == 2 ^ n

\* (i >> k) & 1
BitAt(i, k) == (i \div Pow2(k)) % 2

\* amplitude.real * amplitude.real + amplitude.imag * amplitude.imag
AmpProb(amplitude) == QAdd(QSq(amplitude.real), QSq(amplitude.imag))

\* the for-q loop reading qubit q at bit q of i, qubit 0 the lowest bit
RECURSIVE BasisProbFrom_LowBitFirst(_, _, _, _, _)
BasisProbFrom_LowBitFirst(states, nq, i, q, prob) ==
  IF q >= nq THEN prob
  ELSE LET bit == BitAt(i, q)
           state == states[q + 1]
           amplitude == IF bit = 0 THEN state.alpha ELSE state.beta
       IN  BasisProbFrom_LowBitFirst(states, nq, i, q + 1, QMul(prob, AmpProb(amplitude)))

\* the for-q loop of one basis index i, entered at qubit q with the running prob
RECURSIVE BasisProbFrom(_, _, _, _, _)
BasisProbFrom(states, nq, i, q, prob) ==
  IF q >= nq THEN prob
  ELSE LET bit == BitAt(i, nq - 1 - q)
           state == states[q + 1]
           amplitude == IF bit = 0 THEN state.alpha ELSE state.beta
       IN  BasisProbFrom(states, nq, i, q + 1, QMul(prob, AmpProb(amplitude)))

\* the for-i loop entered at index i: probabilities.push(prob) up to numStates
RECURSIVE ProbabilitiesFrom(_, _, _, _)
ProbabilitiesFrom(states, nq, i, probabilities) ==
  IF i >= Pow2(nq) THEN probabilities
  ELSE ProbabilitiesFrom(states, nq, i + 1,
         Append(probabilities, BasisProbFrom(states, nq, i, 0, QOne)))

\* the probabilities array: one entry per i in 0 .. numStates - 1
Probabilities(states, nq) == ProbabilitiesFrom(states, nq, 0, <<>>)

\* probabilities.reduce((a, b) => a + b, 0)
RECURSIVE SumFrom(_, _, _)
SumFrom(ps, k, acc) ==
  IF k > Len(ps) THEN acc ELSE SumFrom(ps, k + 1, QAdd(acc, ps[k]))
Total(ps) == SumFrom(ps, 1, QZero)

\* probabilities.map(p => p / total)
RECURSIVE DivideEach(_, _)
DivideEach(ps, total) ==
  IF ps = <<>> THEN <<>> ELSE <<QDiv(Head(ps), total)>> \o DivideEach(Tail(ps), total)
Normalized(ps) == DivideEach(ps, Total(ps))

\* j.toString(2)
Digit(b) == IF b = 0 THEN "0" ELSE "1"
RECURSIVE ToString2(_)
ToString2(j) ==
  IF j < 2 THEN <<Digit(j)>> ELSE ToString2(j \div 2) \o <<Digit(j % 2)>>

\* str.padStart(n, pad): pads on the left, never shortens
PadStart(str, n, pad) ==
  IF Len(str) >= n THEN str ELSE [k \in 1..(n - Len(str)) |-> pad] \o str

\* the for-j loop stopping one index short of numStates
RECURSIVE SampleFrom_ShortLoop(_, _, _, _)
SampleFrom_ShortLoop(normalized, r, j, cumulative) ==
  IF j >= Len(normalized) - 1 THEN <<>>
  ELSE LET cum == QAdd(cumulative, normalized[j + 1])
       IN  IF QLeq(r, cum) THEN <<j>> ELSE SampleFrom_ShortLoop(normalized, r, j + 1, cum)
\* the for-j loop of one shot, entered at index j with the running cumulative:
\* <<j>> for the index at which the loop breaks, <<>> when it ends without
RECURSIVE SampleFrom(_, _, _, _)
SampleFrom(normalized, r, j, cumulative) ==
  IF j >= Len(normalized) THEN <<>>
  ELSE LET cum == QAdd(cumulative, normalized[j + 1])
       IN  IF QLeq(r, cum) THEN <<j>> ELSE SampleFrom(normalized, r, j + 1, cum)

\* one shot with draw r: let cumulative = 0; for (j = 0; ...)
SampleIndex(normalized, r) == SampleFrom(normalized, r, 0, QZero)

\* every shot recorded as a new entry
CountShot_AlwaysNew(counts, state) == Append(counts, [state |-> state, count |-> 1])

\* counts[state] = (counts[state] || 0) + 1.  counts is the sequence of its
\* properties in the order they were created.
CountShot(counts, state) ==
  IF \E k \in 1..Len(counts) : counts[k].state = state
  THEN LET k == CHOOSE k \in 1..Len(counts) : counts[k].state = state
       IN  [counts EXCEPT ![k].count = counts[k].count + 1]
  ELSE Append(counts, [state |-> state, count |-> 1])

\* the for-i loop over the shots, draws[i + 1] being the i-th Math.random()
RECURSIVE SampleShots(_, _, _, _, _)
SampleShots(normalized, nq, draws, i, counts) ==
  IF i >= Len(draws) THEN counts
  ELSE LET hit == SampleIndex(normalized, draws[i + 1])
       IN  SampleShots(normalized, nq, draws, i + 1,
             IF hit = <<>> THEN counts
             ELSE CountShot(counts, PadStart(ToString2(hit[1]), nq, "0")))

\* Object.entries lists first the property names that are canonical array
\* indices ("0", "1", "10", ...: no leading zero) in ascending numeric order,
\* then the other names ("00", "01", ...) in creation order.
IsArrayIndex(str) == str = <<"0">> \/ str[1] = "1"

RECURSIVE DecimalValue(_)
DecimalValue(str) ==
  IF str = <<>> THEN 0
  ELSE 10 * DecimalValue(SubSeq(str, 1, Len(str) - 1)) + (IF str[Len(str)] = "1" THEN 1 ELSE 0)

\* e inserted into a sequence sorted by key, after every element whose key
\* is not greater
RECURSIVE InsertSorted(_, _)
InsertSorted(sorted, e) ==
  IF sorted = <<>> THEN <<e>>
  ELSE IF e.key < Head(sorted).key THEN <<e>> \o sorted
  ELSE <<Head(sorted)>> \o InsertSorted(Tail(sorted), e)

\* a stable sort by ascending key: elements of equal key keep their order
RECURSIVE StableSort(_)
StableSort(seq) ==
  IF seq = <<>> THEN <<>>
  ELSE InsertSorted(StableSort(SubSeq(seq, 1, Len(seq) - 1)), seq[Len(seq)])

RECURSIVE Values(_)
Values(keyed) ==
  IF keyed = <<>> THEN <<>> ELSE <<Head(keyed).val>> \o Values(Tail(keyed))

\* the entries whose name is an array index, keyed by its number
RECURSIVE IndexEntries(_)
IndexEntries(counts) ==
  IF counts = <<>> THEN <<>>
  ELSE IF IsArrayIndex(Head(counts).state)
       THEN <<[key |-> DecimalValue(Head(counts).state), val |-> Head(counts)]>>
              \o IndexEntries(Tail(counts))
       ELSE IndexEntries(Tail(counts))

Entries(counts) ==
  Values(StableSort(IndexEntries(counts)))
    \o SelectSeq(counts, LAMBDA c : ~IsArrayIndex(c.state))

\* the comparator taken the other way round, a.count - b.count
CountKey_Ascending(r) == r.count

\* .sort((a, b) => b.count - a.count): a comes first when b.count - a.count < 0
CountKey(r) == -r.count

\* .map(([state, count]) => ({state, probability: count / shots, count})),
\* each result under its sort key
RECURSIVE MapEntries(_, _)
MapEntries(entries, sh) ==
  IF entries = <<>> THEN <<>>
  ELSE LET r == [state |-> Head(entries).state,
                 probability |-> QDiv(QInt(Head(entries).count), QInt(sh)),
                 count |-> Head(entries).count]
       IN  <<[key |-> CountKey(r), val |-> r]>> \o MapEntries(Tail(entries), sh)

\* Object.entries(counts).map(...).sort(...)
Results(counts, sh) == Values(StableSort(MapEntries(Entries(counts), sh)))

\* values of Math.random(), which lies in [0, 1): 0, 1/2, 3/4
DrawVals == {QZero, <<1, 0, 2>>, <<3, 0, 4>>}

\* the gate object addGate builds (lines 67-72)
NewGate(id, type, qubit) ==
  [id |-> id, type |-> type, qubit |-> qubit,
   controlQubit |-> IF type = "CNOT" /\ qubit > 0 THEN qubit - 1 ELSE Undefined]

\* the whole of simulateCircuit; draws are the values Math.random() returns
\* to its shots, in order.  states and normalized are computed once, before
\* the shots are drawn.
simulateCircuit ==
  \E states \in {CVRunGates(CVInitStates(numQubits), gates, numQubits)} :
    \E normalized \in {Normalized(Probabilities(states, numQubits))} :
      \E draws \in [1..shots -> DrawVals] :
        /\ qubitStates' = states
        /\ measurementResults' = Results(SampleShots(normalized, numQubits, draws, 0, <<>>), shots)
        /\ hasRun' = TRUE
        /\ UNCHANGED <<numQubits, gates, cvSelectedGate, shots, nextId, pgVars, gVars, bsVars, ecVars>>

clearCircuit_KeepsStates ==
  /\ gates' = <<>>
  /\ measurementResults' = <<>>
  /\ hasRun' = FALSE
  /\ UNCHANGED <<numQubits, cvSelectedGate, qubitStates, shots, nextId, pgVars, gVars, bsVars, ecVars>>

\* clearCircuit (lines 80-85)
clearCircuit ==
  /\ gates' = <<>>
  /\ qubitStates' = <<>>
  /\ measurementResults' = <<>>
  /\ hasRun' = FALSE
  /\ UNCHANGED <<numQubits, cvSelectedGate, shots, nextId, pgVars, gVars, bsVars, ecVars>>

\* ---------------------------------------------------- the run on its inputs
\* simulateCircuit as a function of (numQubits, gates, shots) and of the
\* draws.  The inputs are chosen first, the qubit count and the shot count at
\* the start and the gate list by placing gates; the handler is then called
\* once, whatever the Run button's disabled state.  Counts below 1 are among
\* the inputs.
RunInit ==
  /\ PGInit
  /\ BSInit
  /\ ECInit
  /\ GIdle
  /\ numQubits \in 0..MaxQubits
  /\ shots \in 0..MaxShots
  /\ gates = <<>>
  /\ cvSelectedGate = "H"
  /\ qubitStates = <<>>
  /\ measurementResults = <<>>
  /\ hasRun = FALSE
  /\ nextId = 0

\* a palette button, setSelectedGate(type), then an empty cell of row qubit,
\* addGate(qubit, step); max caps the number of gates ever placed
PlaceGate(type, qubit, max) ==
  /\ ~hasRun
  /\ nextId < max
  /\ qubit < numQubits
  /\ cvSelectedGate' = type
  /\ gates' = Append(gates, NewGate(nextId, type, qubit))
  /\ nextId' = nextId + 1
  /\ UNCHANGED <<numQubits, qubitStates, measurementResults, shots, hasRun, pgVars, gVars, bsVars, ecVars>>

FirstRun ==
  /\ ~hasRun
  /\ simulateCircuit

RunNext ==
  \/ \E type \in CVGateType, qubit \in 0..(MaxQubits - 1) : PlaceGate(type, qubit, MaxRunGates)
  \/ FirstRun

SpecRun == RunInit /\ [][RunNext]_vars

\* ------------------------------------------------- the run after earlier runs
\* The gate list is built on the rows shown, the qubit slider is lowered
\* under gates already placed, and the handler is called again and again,
\* also over what an earlier run or an earlier circuit left behind.  One shot
\* is drawn per run.
RerunInit ==
  /\ PGInit
  /\ BSInit
  /\ ECInit
  /\ GIdle
  /\ numQubits \in 1..MaxQubits
  /\ shots = 1
  /\ gates = <<>>
  /\ cvSelectedGate = "H"
  /\ qubitStates = <<>>
  /\ measurementResults = <<>>
  /\ hasRun = FALSE
  /\ nextId = 0

\* the qubit slider moved down: onValueChange={([v]) => setNumQubits(v)}
LowerNumQubits(v) ==
  /\ ~hasRun
  /\ gates # <<>>
  /\ v < numQubits
  /\ numQubits' = v
  /\ UNCHANGED <<gates, cvSelectedGate, qubitStates, measurementResults, shots, hasRun, nextId, pgVars, gVars, bsVars, ecVars>>

ClearRun ==
  /\ hasRun
  /\ clearCircuit

RerunNext ==
  \/ \E type \in CVGateType, qubit \in 0..(MaxQubits - 1) : PlaceGate(type, qubit, MaxGates)
  \/ \E v \in 1..MaxQubits : LowerNumQubits(v)
  \/ simulateCircuit
  \/ ClearRun

SpecRerun == RerunInit /\ [][RerunNext]_vars

\* ------------------------------------------------------------ run properties
\* the string of n characters '0'
Zeros(n) == [k \in 1..n |-> "0"]

\* a run has happened on an empty gate list, with counts in the stated ranges
EmptyRun == hasRun /\ gates = <<>> /\ numQubits >= 1 /\ shots >= 1

\* C11: a run of the empty gate list on n >= 1 qubits with shots >= 1 returns
\* exactly one outcome, the bitstring of n zeros, with count = shots and
\* probability 1, whatever the draws of the shots are.
C11_EmptyCircuit ==
  EmptyRun =>
    measurementResults = <<[state |-> Zeros(numQubits), probability |-> QOne, count |-> shots]>>

C11_Witness == EmptyRun /\ numQubits >= 2 /\ shots >= 2 /\ Len(measurementResults) = 1

\* a run has happened on counts in the stated ranges
ValidRun == hasRun /\ numQubits >= 1 /\ shots >= 1

RECURSIVE SumCounts(_)
SumCounts(outcomes) ==
  IF outcomes = <<>> THEN 0 ELSE Head(outcomes).count + SumCounts(Tail(outcomes))

RECURSIVE SumProbabilities(_)
SumProbabilities(outcomes) ==
  IF outcomes = <<>> THEN QZero
  ELSE QAdd(Head(outcomes).probability, SumProbabilities(Tail(outcomes)))

\* C12: whatever the gate list, the qubit count, the shot count >= 1 and the
\* draws in [0, 1), every shot of a run is counted for exactly one bitstring:
\* the counts of the outcomes sum to shots and their probabilities sum to 1.
C12_EveryShotCounted ==
  ValidRun =>
    /\ SumCounts(measurementResults) = shots
    /\ SumProbabilities(measurementResults) = QOne

C12_Witness ==
  /\ ValidRun
  /\ gates # <<>>
  /\ shots >= 2
  /\ Len(measurementResults) >= 2

\* the bitstring a shot records for basis index i
Bitstring(i) == PadStart(ToString2(i), numQubits, "0")

\* |alpha|^2 of a qubit for the character '0', |beta|^2 for '1'
CharProb(state, ch) == IF ch = "0" THEN AmpProb(state.alpha) ELSE AmpProb(state.beta)

\* product over the qubits q, q + 1, ..: qubit q read at character q of str,
\* character 0 being the leftmost
RECURSIVE JointProb(_, _, _)
JointProb(states, str, q) ==
  IF q >= Len(states) THEN QOne
  ELSE QMul(CharProb(states[q + 1], str[q + 1]), JointProb(states, str, q + 1))

\* the probabilities array of the last run
RunProbabilities == Probabilities(qubitStates, numQubits)

SingleXOnQubit0 == Len(gates) = 1 /\ gates[1].type = "X" /\ gates[1].qubit = 0

\* C13: the joint probability of basis index i is the product over the qubits
\* q of |alpha_q|^2 where character q of i's bitstring is '0' and |beta_q|^2
\* where it is '1', character 0 being the leftmost; a single X on qubit 0
\* gives probability 1 to "10" on 2 qubits and to "100" on 3.
C13_JointProbability ==
  ValidRun =>
    \A probabilities \in {RunProbabilities} :
      /\ \A i \in 0..(Pow2(numQubits) - 1) :
            /\ Len(Bitstring(i)) = numQubits
            /\ probabilities[i + 1] = JointProb(qubitStates, Bitstring(i), 0)
      /\ SingleXOnQubit0 =>
            \A i \in 0..(Pow2(numQubits) - 1) :
               probabilities[i + 1] =
                 IF Bitstring(i) = <<"1">> \o Zeros(numQubits - 1) THEN QOne ELSE QZero

C13_Witness ==
  /\ ValidRun
  /\ numQubits = MaxQubits
  /\ SingleXOnQubit0
  /\ RunProbabilities[Pow2(numQubits - 1) + 1] = QOne
  /\ \E k \in 1..Len(measurementResults) :
        measurementResults[k].state = <<"1">> \o Zeros(numQubits - 1)

\* the normalized array of the last run
RunNormalized == Normalized(RunProbabilities)

\* the sequence of the sums p_0 + ... + p_j, j = 0 .. numStates - 1
RECURSIVE Cumulatives(_)
Cumulatives(ps) ==
  IF ps = <<>> THEN <<>>
  ELSE LET front == Cumulatives(SubSeq(ps, 1, Len(ps) - 1))
       IN  Append(front, QAdd(IF front = <<>> THEN QZero ELSE front[Len(front)], ps[Len(ps)]))

\* the indices j whose cumulative probability is at least r
AtLeast(cums, r) == {j \in 0..(Len(cums) - 1) : QSign(QSub(cums[j + 1], r)) >= 0}

Lowest(S) == CHOOSE j \in S : \A k \in S : j <= k

\* draws on a grid of eighths, 0 to 7/8
Eighths == {QNorm(k, 0, 8) : k \in 0..7}

\* C14: a shot with draw r selects the lowest index j whose cumulative
\* normalized probability p_0 + ... + p_j is at least r, and no other index:
\* so does the scan of one shot for every r, and every bitstring a run
\* records is the one of the lowest such index of some draw.
C14_LowestCumulativeIndex ==
  ValidRun =>
    \A normalized \in {RunNormalized} :
      \A cums \in {Cumulatives(normalized)} :
        /\ \A r \in Eighths :
              /\ AtLeast(cums, r) # {}
              /\ SampleIndex(normalized, r) = <<Lowest(AtLeast(cums, r))>>
        /\ \A k \in 1..Len(measurementResults) :
              \E r \in DrawVals :
                 measurementResults[k].state = Bitstring(Lowest(AtLeast(cums, r)))

\* a draw on the boundary, r = p_0 = 1/2, and a shot that went past index 0
C14_Witness ==
  /\ ValidRun
  /\ RunNormalized[1] = <<1, 0, 2>>
  /\ <<1, 0, 2>> \in DrawVals
  /\ SampleIndex(RunNormalized, <<1, 0, 2>>) = <<0>>
  /\ \E k \in 1..Len(measurementResults) : measurementResults[k].state # Zeros(numQubits)

\* C15: the outcomes of a run are listed by count, largest first: no outcome
\* has a larger count than the one listed before it.
C15_SortedByCount ==
  ValidRun =>
    \A k \in 1..(Len(measurementResults) - 1) :
       measurementResults[k].count >= measurementResults[k + 1].count

\* on one qubit Object.entries lists "0" before "1"; here the sort has put
\* "1", drawn twice, before "0", drawn once
C15_Witness ==
  /\ ValidRun
  /\ numQubits = 1
  /\ Len(measurementResults) = 2
  /\ measurementResults[1].state = <<"1">>
  /\ measurementResults[1].count = 2
  /\ measurementResults[2].state = <<"0">>
  /\ measurementResults[2].count = 1

\* C16: every outcome of a run has a bitstring of exactly numQubits characters,
\* each '0' or '1', that no other outcome has; its count is an integer >= 1
\* and its probability is count / shots, greater than 0 and at most 1.
C16_OutcomeWellFormed ==
  ValidRun =>
    \A k \in 1..Len(measurementResults) :
       LET r == measurementResults[k]
       IN  /\ Len(r.state) = numQubits
           /\ \A c \in 1..Len(r.state) : r.state[c] \in {"0", "1"}
           /\ \A l \in 1..Len(measurementResults) :
                 l # k => measurementResults[l].state # r.state
           /\ r.count \in Nat
           /\ r.count >= 1
           /\ r.probability = QDiv(QInt(r.count), QInt(shots))
           /\ QSign(r.probability) > 0
           /\ QSign(QSub(QOne, r.probability)) >= 0

\* two bitstrings recorded, one of them by more than one shot
C16_Witness ==
  /\ ValidRun
  /\ numQubits = MaxQubits
  /\ Len(measurementResults) >= 2
  /\ \E k \in 1..Len(measurementResults) : measurementResults[k].count >= 2

InRange(gs, nq) == SelectSeq(gs, LAMBDA g : g.qubit < nq)

\* what a gate of each type does to the amplitude pair of its qubit
GateMap(type, s) ==
  CASE type = "H" -> CV_H(s)
    [] type = "X" -> CV_X(s)
    [] type = "Y" -> CV_Y(s)
    [] type = "Z" -> CV_Z(s)
    [] type = "S" -> CV_S(s)
    [] type = "T" -> CV_T(s)
    [] type \in {"CNOT", "M"} -> s

\* the gates of gs, all in range, applied in list order to their qubits
RECURSIVE Replay(_, _)
Replay(states, gs) ==
  IF gs = <<>> THEN states
  ELSE LET g == Head(gs)
       IN  Replay([states EXCEPT ![g.qubit + 1] = GateMap(g.type, states[g.qubit + 1])], Tail(gs))

\* C18: a gate whose qubit index is not below the current qubit count (placed
\* before the count was lowered) is skipped without an error: the run
\* completes, the other gates are applied in order, and the final states are
\* those of the list with the out-of-range gates removed.
C18_OutOfRangeSkipped ==
  hasRun =>
    /\ Len(qubitStates) = numQubits
    /\ qubitStates = Replay(CVInitStates(numQubits), InRange(gates, numQubits))

\* an out-of-range gate followed by a gate in range that has acted
C18_Witness ==
  /\ hasRun
  /\ \E k, l \in 1..Len(gates) :
        /\ k < l
        /\ gates[k].qubit >= numQubits
        /\ gates[l].qubit < numQubits
        /\ qubitStates[gates[l].qubit + 1] # CVKet0
  /\ measurementResults # <<>>

\* the states array before the k-th gate of the run
StatesBefore(k) == CVRunGates(CVInitStates(numQubits), SubSeq(gates, 1, k - 1), numQubits)

\* states a control qubit may be in: |0>, |1>, H|0>
ControlStates == {CVKet0, CV_X(CVKet0), CV_H(CVKet0)}

Rerun == hasRun /\ hasRun'

MaxPlaced == 9

\* const maxSteps = 8
maxSteps == 8

\* the content of a cell that shows no gate
Null == [id |-> Undefined]

\* gates.forEach((gate, idx) => ...): the gates from list index idx on written
\* into the grid, a later gate over an earlier one of the same cell
RECURSIVE FillGrid(_, _, _, _)
FillGrid(grid, gs, idx, nq) ==
  IF idx >= Len(gs) THEN grid
  ELSE LET gate == gs[idx + 1]
           step == idx % maxSteps
       IN  IF gate.qubit < nq
             THEN FillGrid([grid EXCEPT ![gate.qubit][step] = gate], gs, idx + 1, nq)
             ELSE FillGrid(grid, gs, idx + 1, nq)

gatesByQubitAndStep(gs, nq) ==
  FillGrid([qubit \in 0..(nq - 1) |-> [step \in 0..(maxSteps - 1) |-> Null]], gs, 0, nq)

\* the list with e put in front of its element at 0-based position k
InsertAt(seq, k, e) ==
  IF k >= Len(seq) THEN Append(seq, e)
  ELSE SubSeq(seq, 1, k) \o <<e>> \o SubSeq(seq, k + 1, Len(seq))

addGate_AtStep(qubit, step) ==
  /\ gates' = InsertAt(gates, step, NewGate(nextId, cvSelectedGate, qubit))
  /\ nextId' = nextId + 1
  /\ UNCHANGED <<numQubits, cvSelectedGate, qubitStates, measurementResults, shots, hasRun, pgVars, gVars, bsVars, ecVars>>

\* addGate(qubit, step): the selected gate appended to the list
addGate(qubit, step) ==
  /\ gates' = Append(gates, NewGate(nextId, cvSelectedGate, qubit))
  /\ nextId' = nextId + 1
  /\ UNCHANGED <<numQubits, cvSelectedGate, qubitStates, measurementResults, shots, hasRun, pgVars, gVars, bsVars, ecVars>>

\* removeGate(gateId): prev.filter(g => g.id !== gateId)
removeGate(gateId) ==
  /\ gates' = SelectSeq(gates, LAMBDA g : g.id # gateId)
  /\ UNCHANGED <<numQubits, cvSelectedGate, qubitStates, measurementResults, shots, hasRun, nextId, pgVars, gVars, bsVars, ecVars>>

\* onValueChange={([v]) => setNumQubits(v)}
setNumQubits(v) ==
  /\ numQubits' = v
  /\ UNCHANGED <<gates, cvSelectedGate, qubitStates, measurementResults, shots, hasRun, nextId, pgVars, gVars, bsVars, ecVars>>

\* an empty cell of the diagram clicked; max caps the gates ever placed
ClickEmptyCell(qubit, step, max) ==
  /\ nextId < max
  /\ qubit < numQubits
  /\ gatesByQubitAndStep(gates, numQubits)[qubit][step] = Null
  /\ addGate(qubit, step)

\* a cell showing a gate clicked
ClickGate(qubit, step) ==
  /\ qubit < numQubits
  /\ \E gate \in {gatesByQubitAndStep(gates, numQubits)[qubit][step]} :
        /\ gate # Null
        /\ removeGate(gate.id)

\* the qubit slider moved to another value
MoveQubitSlider(v) ==
  /\ v # numQubits
  /\ setNumQubits(v)

\* the Clear button
ClickClear == clearCircuit

DiagramInit ==
  /\ PGInit
  /\ BSInit
  /\ ECInit
  /\ GIdle
  /\ numQubits \in 1..MaxQubits
  /\ shots = 1024
  /\ gates = <<>>
  /\ cvSelectedGate = "H"
  /\ qubitStates = <<>>
  /\ measurementResults = <<>>
  /\ hasRun = FALSE
  /\ nextId = 0

DiagramNext ==
  \/ \E qubit \in 0..(MaxQubits - 1), step \in 0..(maxSteps - 1) : ClickEmptyCell(qubit, step, MaxPlaced)
  \/ \E qubit \in 0..(MaxQubits - 1), step \in 0..(maxSteps - 1) : ClickGate(qubit, step)
  \/ \E v \in 1..MaxQubits : MoveQubitSlider(v)
  \/ ClickClear

SpecDiagram == DiagramInit /\ [][DiagramNext]_vars

\* the cells of the diagram that show the gate with this id
CellsOf(id) ==
  {c \in (0..(numQubits - 1)) \X (0..(maxSteps - 1)) :
     gatesByQubitAndStep(gates, numQubits)[c[1]][c[2]].id = id}

\* C21: every gate of the list whose qubit is below numQubits is shown in a
\* cell of the diagram, so that it can be removed by clicking it: no gate is
\* hidden behind another gate of the same qubit.
C21_EveryGateHasItsCell ==
  \A k \in 1..Len(gates) :
     gates[k].qubit < numQubits => CellsOf(gates[k].id) # {}

\* ------------------------------------------------------ the page before a run
\* The circuit is edited through the palette, the cells of the diagram and
\* the qubit slider, then run with the Run button, which is disabled while
\* the gate list is empty; Clear starts over.  The palette buttons used are
\* those of PagePalette, one shot is drawn per run, and the circuit is edited
\* only while no results are shown.
MaxPageGates == 3

PagePalette == {"H", "X"}

PageInit ==
  /\ PGInit
  /\ BSInit
  /\ ECInit
  /\ GIdle
  /\ numQubits \in 1..MaxQubits
  /\ shots = 1
  /\ gates = <<>>
  /\ cvSelectedGate = "H"
  /\ qubitStates = <<>>
  /\ measurementResults = <<>>
  /\ hasRun = FALSE
  /\ nextId = 0

\* a palette button: onClick={() => setSelectedGate(gate)}
ClickPalette(type) ==
  /\ ~hasRun
  /\ type # cvSelectedGate
  /\ cvSelectedGate' = type
  /\ UNCHANGED <<numQubits, gates, qubitStates, measurementResults, shots, hasRun, nextId, pgVars, gVars, bsVars, ecVars>>

EditAdd(qubit, step) ==
  /\ ~hasRun
  /\ ClickEmptyCell(qubit, step, MaxPageGates)

EditRemove(qubit, step) ==
  /\ ~hasRun
  /\ ClickGate(qubit, step)

EditQubits(v) ==
  /\ ~hasRun
  /\ MoveQubitSlider(v)

\* the Run button: disabled={gates.length === 0 || isSimulating}
ClickRun ==
  /\ gates # <<>>
  /\ simulateCircuit

PageNext ==
  \/ \E type \in PagePalette : ClickPalette(type)
  \/ \E qubit \in 0..(MaxQubits - 1), step \in 0..(maxSteps - 1) : EditAdd(qubit, step)
  \/ \E qubit \in 0..(MaxQubits - 1), step \in 0..(maxSteps - 1) : EditRemove(qubit, step)
  \/ \E v \in 1..MaxQubits : EditQubits(v)
  \/ ClickRun
  \/ ClickClear

SpecPage == PageInit /\ [][PageNext]_vars

\* the ids of the gates of a list, in list order
Ids(gs) == [k \in 1..Len(gs) |-> gs[k].id]

\* the list without its k-th element
Without(seq, k) == SubSeq(seq, 1, k - 1) \o SubSeq(seq, k + 1, Len(seq))

\* what a step of the page does to the gate list and to the qubit states
ClickOrderStep ==
  /\ \A qubit \in 0..(MaxQubits - 1), step \in 0..(maxSteps - 1) :
        addGate(qubit, step) =>
          /\ Len(gates') = Len(gates) + 1
          /\ SubSeq(gates', 1, Len(gates)) = gates
          /\ gates'[Len(gates')].qubit = qubit
          /\ gates'[Len(gates')].type = cvSelectedGate
          /\ \A k \in 1..Len(gates) : gates[k].id < gates'[Len(gates')].id
  /\ \A k \in 1..Len(gates) :
        removeGate(gates[k].id) => gates' = Without(gates, k)
  /\ hasRun' =>
        /\ \A k, l \in 1..Len(gates) : (k < l) => (gates[k].id < gates[l].id)
        /\ qubitStates' = Replay(CVInitStates(numQubits), InRange(gates, numQubits))

\* C22: addGate(qubit, step) appends the new gate at the end of the gate list
\* whatever step was clicked; removeGate(id) removes exactly the gate with
\* that id and keeps the others in their order; a run applies the gates in
\* list order, which is the order of the clicks that placed them.
C22_ClickOrderDecides == [][ClickOrderStep]_vars

\* the later of two clicks went to a cell left of the first one's, a gate
\* between them was removed, and the run applied X and then H to qubit 0:
\* H and then X would have left H|0>
C22_Witness ==
  /\ hasRun
  /\ nextId = 3
  /\ Len(gates) = 2
  /\ Ids(gates) = <<0, 2>>
  /\ gates[1].type = "X" /\ gates[1].qubit = 0
  /\ gates[2].type = "H" /\ gates[2].qubit = 0
  /\ qubitStates[1] = CV_H(CV_X(CVKet0))
  /\ qubitStates[1] # CV_X(CV_H(CVKet0))

\* ------------------------------------------------- the objects of the gate loop
\* The states array of simulateCircuit with the identity of its objects: the
\* array holds references to QubitState objects, a QubitState object holds
\* references to two amplitude objects.  A heap is a record of the array
\* (states), the QubitState objects (obj) and the amplitude objects (amp),
\* an object's reference being its index in its sequence.
EmptyHeap == [states |-> <<>>, obj |-> <<>>, amp |-> <<>>]

\* Array(numQubits).fill(ket0).map(s => s): one object in every element
RECURSIVE HeapInit_Fill(_)
HeapInit_Fill(n) ==
  IF n = 0 THEN EmptyHeap
  ELSE LET h == HeapInit_Fill(n - 1)
       IN  IF n = 1
             THEN [states |-> <<1>>,
                   obj |-> <<[alpha |-> 1, beta |-> 2]>>,
                   amp |-> <<CVKet0.alpha, CVKet0.beta>>]
             ELSE [h EXCEPT !.states = Append(h.states, 1)]

\* Array(numQubits).fill(null).map(() => ({alpha: {...}, beta: {...}})): the
\* callback makes three new objects for every element
RECURSIVE HeapInit(_)
HeapInit(n) ==
  IF n = 0 THEN EmptyHeap
  ELSE LET h == HeapInit(n - 1)
       IN  [states |-> Append(h.states, Len(h.obj) + 1),
            obj |-> Append(h.obj, [alpha |-> Len(h.amp) + 1, beta |-> Len(h.amp) + 2]),
            amp |-> h.amp \o <<CVKet0.alpha, CVKet0.beta>>]

\* states[q] read through its references, q counted from 1
Deref(h, q) ==
  [alpha |-> h.amp[h.obj[h.states[q]].alpha], beta |-> h.amp[h.obj[h.states[q]].beta]]

\* states[q] = { alpha: {...}, beta: {...} }: a new QubitState object
HeapReplace(h, q, s) ==
  [states |-> [h.states EXCEPT ![q] = Len(h.obj) + 1],
   obj |-> Append(h.obj, [alpha |-> Len(h.amp) + 1, beta |-> Len(h.amp) + 2]),
   amp |-> h.amp \o <<s.alpha, s.beta>>]

\* states[q].beta = {...}: a new amplitude object in the QubitState object
HeapSetBeta(h, q, b) ==
  [h EXCEPT !.obj[h.states[q]].beta = Len(h.amp) + 1, !.amp = Append(h.amp, b)]

\* states[q].alpha = {...}
HeapSetAlpha(h, q, a) ==
  [h EXCEPT !.obj[h.states[q]].alpha = Len(h.amp) + 1, !.amp = Append(h.amp, a)]

\* const temp = states[q].alpha; states[q].alpha = states[q].beta; states[q].beta = temp
HeapSwap(h, q) ==
  [h EXCEPT !.obj[h.states[q]] = [alpha |-> h.obj[h.states[q]].beta,
                                  beta |-> h.obj[h.states[q]].alpha]]

\* one pass of gates.forEach on the heap
HeapApplyGate(h, gate, nq) ==
  LET q == gate.qubit + 1
  IN  IF gate.qubit >= nq THEN h
      ELSE CASE gate.type = "H" -> HeapReplace(h, q, CV_H(Deref(h, q)))
             [] gate.type = "X" -> HeapSwap(h, q)
             [] gate.type = "Z" -> HeapSetBeta(h, q, CV_Z(Deref(h, q)).beta)
             [] gate.type = "Y" ->
                  LET s == CV_Y(Deref(h, q))
                  IN  HeapSetBeta(HeapSetAlpha(h, q, s.alpha), q, s.beta)
             [] gate.type = "S" -> HeapSetBeta(h, q, CV_S(Deref(h, q)).beta)
             [] gate.type = "T" -> HeapSetBeta(h, q, CV_T(Deref(h, q)).beta)
             [] OTHER -> h

RECURSIVE HeapRunGates(_, _, _)
HeapRunGates(h, gs, nq) ==
  IF gs = <<>> THEN h
  ELSE HeapRunGates(HeapApplyGate(h, Head(gs), nq), Tail(gs), nq)

\* the array as setQubitStates(states) stores it
HeapStates(h) == [q \in 1..Len(h.states) |-> Deref(h, q)]

\* the heap before the k-th gate of the run
HeapBefore(k) == HeapRunGates(HeapInit(numQubits), SubSeq(gates, 1, k - 1), numQubits)

\* the objects qubit q reaches: its QubitState object and its two amplitudes
ObjOf(h, q) == h.states[q]
AmpsOf(h, q) == {h.obj[h.states[q]].alpha, h.obj[h.states[q]].beta}

\* no two qubits reach a common object
NoSharing(h) ==
  \A p, q \in 1..Len(h.states) :
     p # q => /\ ObjOf(h, p) # ObjOf(h, q)
              /\ AmpsOf(h, p) \cap AmpsOf(h, q) = {}

\* C23: a gate with target qubit q changes only states[q]: every other qubit
\* has the same (alpha, beta) before and after it, and no two qubits ever
\* share a QubitState object or an amplitude object, so that a later gate on
\* one qubit never alters another.
C23_GateTouchesItsQubitOnly ==
  hasRun =>
    /\ NoSharing(HeapInit(numQubits))
    /\ \A k \in 1..Len(gates) :
         \A before \in {HeapBefore(k)} :
           \A after \in {HeapApplyGate(before, gates[k], numQubits)} :
             /\ \A p \in 1..numQubits : p # gates[k].qubit + 1 => Deref(after, p) = Deref(before, p)
             /\ NoSharing(after)
             /\ HeapStates(after) = CVRunGates(CVInitStates(numQubits), SubSeq(gates, 1, k), numQubits)
    /\ qubitStates = HeapStates(HeapRunGates(HeapInit(numQubits), gates, numQubits))

\* X on qubit 0 swapped the references of its object, Z on qubit 1 then gave
\* that qubit a new amplitude object; qubit 1 is still |0> and qubit 0 is |1>
C23_Witness ==
  /\ hasRun
  /\ numQubits = 2
  /\ Len(gates) = 2
  /\ gates[1].type = "X" /\ gates[1].qubit = 0
  /\ gates[2].type = "Z" /\ gates[2].qubit = 1
  /\ qubitStates[1] = CV_X(CVKet0)
  /\ qubitStates[2] = CVKet0
  /\ AmpsOf(HeapRunGates(HeapInit(2), gates, 2), 1) = {1, 2}
  /\ AmpsOf(HeapRunGates(HeapInit(2), gates, 2), 2) = {3, 5}

\* what a step of the page does when Clear is clicked, and when the gate list
\* is empty
ClearStep ==
  /\ clearCircuit =>
       /\ gates' = <<>>
       /\ qubitStates' = <<>>
       /\ measurementResults' = <<>>
       /\ hasRun' = FALSE
       /\ numQubits' = numQubits
       /\ shots' = shots
       /\ cvSelectedGate' = cvSelectedGate
  /\ gates = <<>> =>
       /\ ~ClickRun
       /\ ~hasRun'
       /\ gates' # <<>> => \E qubit \in 0..(numQubits - 1), step \in 0..(maxSteps - 1) : addGate(qubit, step)

\* C24: clearCircuit empties the gate list, discards the qubit states and the
\* results and sets hasRun to false, and leaves numQubits, shots and the
\* selected gate as they are; while the gate list is empty no run starts, and
\* the list stops being empty only by an addGate.
C24_ClearStartsOver == [][ClearStep]_vars

\* the state Clear is clicked in: a run of two gates on two qubits is shown,
\* the palette is on X, and the Clear step that leaves this state is enabled
C24_Witness ==
  /\ hasRun
  /\ numQubits = 2
  /\ cvSelectedGate = "X"
  /\ Len(gates) >= 2
  /\ Len(qubitStates) = 2
  /\ measurementResults # <<>>
  /\ ENABLED (ClickClear /\ ~hasRun' /\ cvSelectedGate' = "X" /\ numQubits' = 2)

\* ------------------------------------------------ the playground's history
\* the gate history replayed on |0> by applyGate itself, which takes an angle
\* of 0 for pi
RECURSIVE ReplayApplied(_)
ReplayApplied(h) ==
  IF h = <<>> THEN PGKet0
  ELSE PGApplyGate(ReplayApplied(SubSeq(h, 1, Len(h) - 1)), h[Len(h)].gate, h[Len(h)].angle)

\* the state vector is the history replayed by applyGate
HistoryReplayedAsApplied == stateVector = ReplayApplied(appliedGates)

\* C25: after any sequence of Apply and Reset the state vector is the result
\* of applying the gates of the history to |0>, in order, every rotation by
\* its recorded angle; with an empty history, as Reset leaves it, the state
\* vector is alpha = (1, 0), beta = (0, 0).
C25_StateIsHistoryReplayed ==
  /\ appliedGates = <<>> => stateVector = PGKet0
  /\ stateVector = ReplaySame(appliedGates)

\* ------------------------------------------------ the two engines compared
\* the gates both engines implement
CommonGates == {"X", "Y", "Z", "H", "S", "T"}

\* a history of gates of both engines only
AllCommon(h) == \A k \in 1..Len(h) : h[k].gate \in CommonGates

\* a history as a gate list of the visualizer, every gate on qubit 0
AsGateList(h) == [k \in 1..Len(h) |-> [type |-> h[k].gate, qubit |-> 0]]

\* a QubitState of the visualizer as pairs <<re, im>>
QubitStateAsPairs(s) ==
  [alpha |-> <<s.alpha.real, s.alpha.imag>>, beta |-> <<s.beta.real, s.beta.imag>>]

\* the visualizer's final state of the 1-qubit circuit of a history
VisualizerResult(h) == QubitStateAsPairs(CVRunGates(CVInitStates(1), AsGateList(h), 1)[1])

\* C26: the two gate implementations agree: for every sequence of gates of
\* {X, Y, Z, H, S, T} applied to one qubit from |0>, the visualizer's final
\* (alpha, beta) of the 1-qubit circuit is the playground's state vector
\* after the same sequence.
C26_EnginesAgree ==
  AllCommon(gHist) =>
    /\ gImpl = "cv" => GCur = ReplayApplied(gHist)
    /\ gImpl = "pg" => GCur = VisualizerResult(gHist)
    /\ VisualizerResult(gHist) = ReplayApplied(gHist)

\* the visualizer after H, T, Y, on a state with four nonzero components
C26_Witness ==
  /\ gImpl = "cv"
  /\ GN = 3
  /\ gHist[1].gate = "H" /\ gHist[2].gate = "T" /\ gHist[3].gate = "Y"
  /\ GCur = ReplayApplied(gHist)
  /\ GCur.alpha = <<QDiv(QOne, QTwo), QNeg(QDiv(QOne, QTwo))>>
  /\ GCur.beta = <<QZero, SQRT1_2>>

\* ------------------------------------------------------ outcomes of weight 0
\* C27: no shot is attributed to a bitstring whose normalized joint
\* probability is 0, for every draw r in [0, 1), r = 0 included: after a
\* single X on a 1-qubit circuit the outcome "0" never appears.
C27_NoOutcomeOfProbabilityZero ==
  ValidRun =>
    \A normalized \in {RunNormalized} :
      \A k \in 1..Len(measurementResults) :
        \A i \in 0..(Pow2(numQubits) - 1) :
           measurementResults[k].state = Bitstring(i) => QSign(normalized[i + 1]) > 0

\* ------------------------------------------------- gates without an effect
\* the gate types the loop has no case for
NoCaseGates == {"CNOT", "M"}

\* the CNOT and M gates a click could place on the rows shown
InsertableGates ==
  {NewGate(nextId, type, qubit) : type \in NoCaseGates, qubit \in 0..(numQubits - 1)}

MaxClock == 4

\* the timestamp, in milliseconds, of an animation frame at a tick
Timestamp(tick) == tick * 8000

Channels == {"depolarizing", "amplitude", "phase"}

\* (prev[channel] || []).slice(-100)
SliceLast100(seq) == IF Len(seq) <= 100 THEN seq ELSE SubSeq(seq, Len(seq) - 99, Len(seq))

\* the updater of setTrails: a point for newTime on the trail of every active
\* channel and on the original's
UpdateTrails(prev, newTime) ==
  [c \in DOMAIN prev |->
     IF c \in activeChannels \/ c = "original"
       THEN Append(SliceLast100(prev[c]), newTime)
       ELSE prev[c]]

\* the passing of wall-clock time
Tick ==
  /\ now < MaxClock
  /\ now' = now + 1
  /\ UNCHANGED <<isPlaying, time, lastTimeRef, activeChannels, trails, playedAt, firstFrameDue, pgVars, gVars, cvVars, ecVars>>

\* the Play / Pause button: onClick={() => setIsPlaying(!isPlaying)}; the
\* effect requests a frame when isPlaying becomes true and cancels it when
\* isPlaying becomes false
TogglePlaying ==
  /\ isPlaying' = ~isPlaying
  /\ playedAt' = IF isPlaying THEN playedAt ELSE now
  /\ firstFrameDue' = ~isPlaying
  /\ UNCHANGED <<time, lastTimeRef, activeChannels, trails, now, pgVars, gVars, cvVars, ecVars>>

\* animate(timestamp), the callback of requestAnimationFrame; at most one
\* frame runs per tick
animate ==
  /\ isPlaying
  /\ lastTimeRef < Timestamp(now)
  /\ LET timestamp == Timestamp(now)
         last == IF lastTimeRef = 0 THEN timestamp ELSE lastTimeRef
         delta == (timestamp - last) \div 1000
         newTime == time + (delta * 5) \div 10
     IN  /\ lastTimeRef' = timestamp
         /\ trails' = IF newTime < 10 THEN UpdateTrails(trails, newTime) ELSE trails
         /\ time' = newTime
  /\ firstFrameDue' = FALSE
  /\ UNCHANGED <<isPlaying, activeChannels, now, playedAt, pgVars, gVars, cvVars, ecVars>>

handleReset ==
  /\ isPlaying' = FALSE
  /\ time' = 0
  /\ lastTimeRef' = 0
  /\ trails' = NoTrails
  /\ firstFrameDue' = FALSE
  /\ UNCHANGED <<activeChannels, now, playedAt, pgVars, gVars, cvVars, ecVars>>

toggleChannel(channel) ==
  /\ activeChannels' = IF channel \in activeChannels
                         THEN activeChannels \ {channel}
                         ELSE activeChannels \cup {channel}
  /\ UNCHANGED <<isPlaying, time, lastTimeRef, trails, now, playedAt, firstFrameDue, pgVars, gVars, cvVars, ecVars>>

BlochInit == PGInit /\ GIdle /\ CVInit /\ BSInit /\ ECInit

BlochNext ==
  \/ Tick
  \/ TogglePlaying
  \/ animate
  \/ handleReset
  \/ \E channel \in Channels : toggleChannel(channel)

SpecBloch == BlochInit /\ [][BlochNext]_vars

\* half the wall-clock interval between two ticks, in the units of time
HalfInterval(from, to) == ((Timestamp(to) - Timestamp(from)) \div 1000) \div 2

\* what a step of the page does to the simulated time while paused, and what
\* Reset does
PausedOrResetStep ==
  /\ ~isPlaying => (time' = time \/ handleReset)
  /\ handleReset => (time' = 0 /\ ~isPlaying' /\ trails' = NoTrails)

\* time stands still while paused and Reset starts over
PausedTimeStandsStill == [][PausedOrResetStep]_vars

\* what a step of the page does to the simulated time
PauseResumeStep ==
  /\ PausedOrResetStep
  /\ (animate /\ firstFrameDue) => time' - time <= HalfInterval(playedAt, now)

\* C29: simulated time is continuous across pause and resume: while paused,
\* time does not change; the first animation frame after Play is clicked
\* advances time by no more than half the wall-clock interval since that
\* click, not by the length of the pause; Reset sets time to 0, stops
\* playback and empties all trails.
C29_TimeContinuousAcrossPause == [][PauseResumeStep]_vars

\* ------------------------------------------------------ error control page
MaxTrials == 3

\* values of Math.random(), in hundredths
DrawPercents == {0, 3, 10, 93, 99}

\* positions of the error rate slider, in percent: its minimum, its initial
\* value and its maximum
ErrorRates == {1, 5, 30}

CodeTypes == {"bitflip", "phaseflip", "shor"}

\* codeType === 'shor' ? 0.99 : codeType === 'phaseflip' ? 0.92 : 0.95
DetectionProb(code) == IF code = "shor" THEN 99 ELSE IF code = "phaseflip" THEN 92 ELSE 95

\* codeType === 'shor' ? 0.95 : codeType === 'phaseflip' ? 0.85 : 0.9
CorrectionProb(code) == IF code = "shor" THEN 95 ELSE IF code = "phaseflip" THEN 85 ELSE 90

\* a trial that draws for the correction whether or not the error was detected
Trial_CorrectsUndetected(i, r1, r2, r3) ==
  LET hasRawError == r1 < errorRate
      rawError == IF hasRawError THEN 1 ELSE 0
      tried == hasRawError /\ enableCorrection
      wasDetected == tried /\ r2 < DetectionProb(codeType)
      wasCorrected == tried /\ r3 < CorrectionProb(codeType)
  IN  [trial |-> i + 1,
       rawError |-> rawError,
       correctedError |-> IF wasCorrected THEN 0 ELSE rawError,
       detected |-> wasDetected,
       corrected |-> wasCorrected]

\* the body of the loop for trial i, r1, r2, r3 being the values Math.random()
\* returns where it is called
Trial(i, r1, r2, r3) ==
  LET hasRawError == r1 < errorRate
      rawError == IF hasRawError THEN 1 ELSE 0
      tried == hasRawError /\ enableCorrection
      wasDetected == tried /\ r2 < DetectionProb(codeType)
      wasCorrected == wasDetected /\ r3 < CorrectionProb(codeType)
  IN  [trial |-> i + 1,
       rawError |-> rawError,
       correctedError |-> IF wasCorrected THEN 0 ELSE rawError,
       detected |-> wasDetected,
       corrected |-> wasCorrected]

\* the records trial i may push, over all draws
TrialOutcomes(i) == {Trial(i, r1, r2, r3) : r1 \in DrawPercents, r2 \in DrawPercents, r3 \in DrawPercents}

\* the arrays newResults may be after n trials
RECURSIVE NewResults(_)
NewResults(n) ==
  IF n = 0 THEN {<<>>}
  ELSE {Append(rs, r) : rs \in NewResults(n - 1), r \in TrialOutcomes(n - 1)}

\* the counters of the loop: totalRawErrors, totalCorrectedErrors, detected, corrected
RECURSIVE Totals(_)
Totals(rs) ==
  IF rs = <<>> THEN [totalRawErrors |-> 0, totalCorrectedErrors |-> 0, detected |-> 0, corrected |-> 0]
  ELSE LET t == Totals(SubSeq(rs, 1, Len(rs) - 1))
           r == rs[Len(rs)]
       IN  [totalRawErrors |-> t.totalRawErrors + r.rawError,
            totalCorrectedErrors |-> t.totalCorrectedErrors + r.correctedError,
            detected |-> t.detected + (IF r.detected THEN 1 ELSE 0),
            corrected |-> t.corrected + (IF r.corrected THEN 1 ELSE 0)]

\* the argument of setStats
StatsOf(t, n) ==
  [rawErrorRate |-> QDiv(QInt(t.totalRawErrors), QInt(n)),
   correctedErrorRate |-> QDiv(QInt(t.totalCorrectedErrors), QInt(n)),
   detectionRate |-> IF t.totalRawErrors > 0
                       THEN QDiv(QInt(t.detected), QInt(t.totalRawErrors)) ELSE QZero,
   correctionRate |-> IF t.detected > 0
                        THEN QDiv(QInt(t.corrected), QInt(t.detected)) ELSE QZero]

\* the Run button: simulateErrors
simulateErrors ==
  \E newResults \in NewResults(numTrials) :
    /\ results' = newResults
    /\ stats' = StatsOf(Totals(newResults), numTrials)
    /\ UNCHANGED <<errorRate, numTrials, codeType, enableCorrection, pgVars, gVars, cvVars, bsVars>>

setErrorRate(v) ==
  /\ errorRate' = v
  /\ UNCHANGED <<numTrials, codeType, enableCorrection, results, stats, pgVars, gVars, cvVars, bsVars>>

setNumTrials(v) ==
  /\ numTrials' = v
  /\ UNCHANGED <<errorRate, codeType, enableCorrection, results, stats, pgVars, gVars, cvVars, bsVars>>

setCodeType(v) ==
  /\ codeType' = v
  /\ UNCHANGED <<errorRate, numTrials, enableCorrection, results, stats, pgVars, gVars, cvVars, bsVars>>

setEnableCorrection(v) ==
  /\ enableCorrection' = v
  /\ UNCHANGED <<errorRate, numTrials, codeType, results, stats, pgVars, gVars, cvVars, bsVars>>

IsNoError(r) == r.rawError = 0
IsCorrected(r) == r.corrected
IsDetectedOnly(r) == r.detected /\ ~r.corrected
IsUndetected(r) == r.rawError # 0 /\ ~r.detected

\* syndromeData before its filter(d => d.count > 0)
SyndromeCounts(rs) ==
  <<[syndrome |-> "No Error", count |-> Len(SelectSeq(rs, IsNoError))],
    [syndrome |-> "Detected & Corrected", count |-> Len(SelectSeq(rs, IsCorrected))],
    [syndrome |-> "Detected Only", count |-> Len(SelectSeq(rs, IsDetectedOnly))],
    [syndrome |-> "Undetected", count |-> Len(SelectSeq(rs, IsUndetected))]>>

syndromeData(rs) == SelectSeq(SyndromeCounts(rs), LAMBDA d : d.count > 0)

\* the page with the trial slider on 1..MaxTrials
ErrorInit ==
  /\ PGInit /\ GIdle /\ CVInit /\ BSInit
  /\ errorRate = 5
  /\ numTrials \in 1..MaxTrials
  /\ codeType = "bitflip"
  /\ enableCorrection = TRUE
  /\ results = <<>>
  /\ stats = NoStats

ErrorNext ==
  \/ simulateErrors
  \/ \E v \in ErrorRates : setErrorRate(v)
  \/ \E v \in 1..MaxTrials : setNumTrials(v)
  \/ \E v \in CodeTypes : setCodeType(v)
  \/ \E v \in BOOLEAN : setEnableCorrection(v)

SpecError == ErrorInit /\ [][ErrorNext]_vars

\* a step of the page that leaves the four settings alone: a run
IsErrorRun == UNCHANGED <<errorRate, numTrials, codeType, enableCorrection>>

\* what a run of simulateErrors leaves in results and stats
ErrorRunStep ==
  IsErrorRun =>
    /\ Len(results') = numTrials
    /\ \A k \in 1..Len(results') :
         LET r == results'[k]
         IN  /\ r.trial = k
             /\ r.corrected => r.detected
             /\ r.detected => (r.rawError = 1 /\ enableCorrection)
             /\ r.correctedError <= r.rawError
             /\ Cardinality({c \in 1..4 :
                   \/ c = 1 /\ IsNoError(r)
                   \/ c = 2 /\ IsCorrected(r)
                   \/ c = 3 /\ IsDetectedOnly(r)
                   \/ c = 4 /\ IsUndetected(r)}) = 1
    /\ \A counts \in {SyndromeCounts(results')} :
         /\ counts[1].count + counts[2].count + counts[3].count + counts[4].count = numTrials
         /\ SumCounts(syndromeData(results')) = numTrials
    /\ QLeq(stats'.correctedErrorRate, stats'.rawErrorRate)

\* C30: for every trial of a run and every outcome of the draws, corrected
\* implies detected, detected implies a raw error with correction enabled,
\* and correctedError <= rawError; so every trial is in exactly one of the
\* four syndrome categories, their counts sum to numTrials, and
\* correctedErrorRate <= rawErrorRate.
C30_TrialsConsistent == [][ErrorRunStep]_vars

\* a run of three trials with an error in each: one corrected, one detected
\* only, one undetected
C30_Witness ==
  /\ Len(results) = 3
  /\ numTrials = 3
  /\ \A c \in 2..4 : SyndromeCounts(results)[c].count = 1
  /\ Len(syndromeData(results)) = 3
  /\ stats.rawErrorRate = QOne
  /\ stats.correctedErrorRate = QDiv(QTwo, QInt(3))
  /\ stats.detectionRate = QDiv(QTwo, QInt(3))
  /\ stats.correctionRate = QDiv(QOne, QTwo)

====
